---- MODULE Spec2Model ----
(***************************************************************************)
(* EntropyGuard, Pipeline.run (src/src/entropyguard/cli/pipeline.py, the   *)
(* v1.11 eager pipeline): load -> schema -> sanitize -> chunk -> exact     *)
(* dedup (hash) -> semantic dedup (vector index) -> validate -> save.      *)
(*                                                                         *)
(* A text is a sequence of one-character strings, or Null.  A frame is a   *)
(* sequence of rows [pos, idx, text]: text is the text column, idx the     *)
(* _original_index column, pos the line of the input file the row came     *)
(* from (the identity of the record; the program has no such column).      *)
(*                                                                         *)
(* Numbers: a similarity is in hundredths (90 = 0.90), a vector component  *)
(* in hundredths (100 = 1.0), a squared norm or squared distance in units  *)
(* of 1e-4 (10000 = 1.0).                                                  *)
(***************************************************************************)
EXTENDS Integers, Sequences, FiniteSets, TLC

VARIABLES pc, args, input, columns, df, df_after_exact, chunker, index,
          audit_events, stats, result, output_file, audit_file,
          distance_threshold, duplicate_groups, dropped_chars, call

vars == <<pc, args, input, columns, df, df_after_exact, chunker, index,
          audit_events, stats, result, output_file, audit_file,
          distance_threshold, duplicate_groups, dropped_chars, call>>

\* the state of a Pipeline object and of its run
run_vars == <<pc, args, input, columns, df, df_after_exact, chunker, index,
              audit_events, stats, result, output_file, audit_file,
              distance_threshold, duplicate_groups, dropped_chars>>

\* ---------------------------------------------------------------- bounds
\* Largest number of lines in the input file.
MaxRows == 3
\* Largest number of rows of a frame handed to the validation step directly.
MaxFrame == 2
\* Largest min_length handed to the validation step directly.
MaxMinLength == 3
\* Largest number of vectors added to a VectorIndex directly.
MaxVectors == 3
\* Largest number of checkpoints saved in one checkpoint directory.
MaxSaves == 2
\* Largest chunk_size of a Chunker built directly.
MaxChunkSize == 3
\* Largest number of characters of a text handed to split_text directly.
MaxTextLen == 4

\* ------------------------------------------------------------- constants
Null == "None"

\* A null value of the text column: no character sequence.
NullText == <<"null">>

\* Optional values: None is the empty sequence, a value v is <<v>>.
None == <<>>

Some(v) == <<v>>
NoResult == "running"
\* call: the library entry point called directly, instead of Pipeline.run,
\* with its arguments and what it returned; none so far
NoCall == [op |-> "none"]

\* ------------------------------------------------------------ text values
Space == " "

Newline == "\n"

IsWs(c) == c \in {Space, Newline}

Lower(c) == IF c = "A" THEN "a" ELSE IF c = "B" THEN "b" ELSE c

\* str.lower()
LowerStr(s) == [i \in 1..Len(s) |-> Lower(s[i])]

RECURSIVE LStrip(_)
LStrip(s) == IF s # <<>> /\ IsWs(Head(s)) THEN LStrip(Tail(s)) ELSE s

RECURSIVE RStrip(_)
RStrip(s) ==
    IF s # <<>> /\ IsWs(s[Len(s)]) THEN RStrip(SubSeq(s, 1, Len(s) - 1)) ELSE s

\* str.strip()
Strip(s) == RStrip(LStrip(s))

\* " ".join(s.split()): runs of whitespace become one space, none at the ends
RECURSIVE CollapseWs(_)
CollapseWs(s) ==
    IF s = <<>> THEN <<>>
    ELSE IF IsWs(Head(s))
         THEN LET rest == LStrip(s)
              IN  IF rest = <<>> THEN <<>> ELSE <<Space>> \o CollapseWs(rest)
         ELSE <<Head(s)>> \o CollapseWs(Tail(s))

SplitJoin(s) == CollapseWs(Strip(s))

\* The digest of a byte string.  xxh64 / MD5 are modelled as collision free:
\* the digest of a string is the string, tagged.
Digest(s) == <<"digest", s>>

\* calculate_text_hash: hash of the lowercased, stripped, whitespace-normalized text
calculate_text_hash(text) == Digest(SplitJoin(Strip(LowerStr(text))))

\* The hash the pipeline gives a null text (pipeline.py:252-253): the empty string
NullHash == <<"", <<>>>>

\* ------------------------------------------------------------ the inputs
\* The text values a line of the input file can carry.
Texts == { <<"a">>, <<"a", "b">>, <<Space, "A", "B">>, <<"a", "@">>, <<Space>>, <<"b">> }

TextValues == Texts \cup {NullText}

\* The values an _original_index column can hold when the input file already
\* has one: descending, constant, and ascending with gaps.
IndexColumns(n) ==
    { [i \in 1..n |-> n - i], [i \in 1..n |-> 0], [i \in 1..n |-> 2 * i] }

\* The input files: a missing file, tables with a text column (with or without
\* an _original_index column of their own), and a table without a text column.
InputFiles ==
    { [exists |-> FALSE, columns |-> {}, texts |-> <<>>, index_col |-> <<>>] }
    \cup
    { [exists |-> TRUE, columns |-> {"text"}, texts |-> t, index_col |-> <<>>] :
        t \in UNION { [1..n -> TextValues] : n \in 0..MaxRows } }
    \cup
    UNION { { [exists |-> TRUE, columns |-> {"text", "_original_index"},
               texts |-> t, index_col |-> ic] :
                t \in [1..n -> TextValues], ic \in IndexColumns(n) } : n \in 1..MaxRows }
    \cup
    { [exists |-> TRUE, columns |-> {"id"}, texts |-> <<NullText>>, index_col |-> <<>>] }

\* The arguments of Pipeline.run.
RunArgs ==
    [ text_column : {"text"},
      required_columns : { {}, {"id"} },
      min_length : {0, 2},
      dedup_threshold : {90, 95},
      audit_log_path : {Null, "audit.json"},
      chunk_size : { None, Some(1) },
      chunk_overlap : {0},
      chunk_separators : {None} ]

\* ------------------------------------------------------------------ stats
EmptyStats == [k \in {} |-> 0]

Put(s, k, v) == (k :> v) @@ s

Failure(s, e) == [success |-> FALSE, stats |-> s, error |-> e]

Success(s) == [success |-> TRUE, stats |-> s, error |-> Null]

\* The character counters of a run (exact_dupes_chars, semantic_dupes_chars,
\* validation_dropped_chars) when it starts: semantic_dupes_chars is a local
\* variable that is bound only inside the branch of Stage 2 that embeds
\* (pipeline.py:322), None until then.
NoDroppedChars == [exact |-> 0, semantic |-> None, validation |-> 0]

\* ------------------------------------------------------------------- Init
\* Pipeline.__init__: no chunker, no index, an empty audit trail; no run yet.
Init ==
    /\ pc = "idle"
    /\ args = Null
    /\ input = Null
    /\ columns = {}
    /\ df = <<>>
    /\ df_after_exact = <<>>
    /\ chunker = None
    /\ index = None
    /\ audit_events = <<>>
    /\ stats = EmptyStats
    /\ result = NoResult
    /\ output_file = None
    /\ audit_file = None
    /\ distance_threshold = None
    /\ duplicate_groups = <<>>
    /\ dropped_chars = NoDroppedChars
    /\ call = NoCall

\* ------------------------------------------------------------ Step 1: load
\* The frame load_dataset(...).collect() gives, with the _original_index
\* column attached when the file has none (pipeline.py:163-166).
with_original_index(f) ==
    [i \in 1..Len(f.texts) |->
        [pos |-> i,
         idx |-> IF "_original_index" \in f.columns THEN f.index_col[i] ELSE i - 1,
         text |-> f.texts[i]]]

\* Pipeline.run up to the empty-input check (pipeline.py:150-177).
Load(f, a) ==
    /\ args' = a
    /\ input' = f
    /\ audit_events' = <<>>
    /\ dropped_chars' = NoDroppedChars
    /\ IF ~f.exists
       THEN \* load_dataset raises FileNotFoundError: the except clause answers
            /\ result' = Failure(EmptyStats, "File not found")
            /\ pc' = "done"
            /\ UNCHANGED <<columns, df, stats>>
       ELSE LET frame == with_original_index(f)
                st == Put(Put(EmptyStats, "loaded_rows", Len(frame)),
                          "original_rows", Len(frame))
            IN  /\ df' = frame
                /\ columns' = f.columns \cup {"_original_index"}
                /\ stats' = st
                /\ IF Len(frame) = 0
                   THEN /\ result' = Failure(st, "Input dataset is empty")
                        /\ pc' = "done"
                   ELSE /\ result' = NoResult
                        /\ pc' = "schema"
    /\ UNCHANGED <<df_after_exact, chunker, index, output_file, audit_file,
                   distance_threshold, duplicate_groups>>

\* ---------------------------------------------------- Step 2: schema check
\* DataValidator.validate_schema: every required column is a column of the frame.
validate_schema(cols, required_cols) == required_cols \subseteq cols

ValidateSchema ==
    /\ pc = "schema"
    /\ IF args.required_columns # {} /\ ~validate_schema(columns, args.required_columns)
       THEN /\ result' = Failure(stats, "Missing required columns")
            /\ pc' = "done"
       ELSE /\ pc' = "sanitize"
            /\ UNCHANGED result
    /\ UNCHANGED <<args, input, columns, df, df_after_exact, chunker, index,
                   audit_events, stats, output_file, audit_file,
                   distance_threshold, duplicate_groups, dropped_chars>>
    /\ UNCHANGED call

\* -------------------------------------------------------- Step 3: sanitize
\* PII scrubbing: "@" stands for an e-mail address, "#" for the placeholder
\* token that replaces it.
remove_pii(s) == [i \in 1..Len(s) |-> IF s[i] = "@" THEN "#" ELSE s[i]]

\* The text column after normalize_text=True, remove_pii=True: trimmed,
\* whitespace collapsed, lowercased, PII replaced.
sanitize_text(t) == remove_pii(LowerStr(CollapseWs(Strip(t))))

RECURSIVE SelectRows_reversed(_, _)
\* SelectRows gone wrong: the kept rows come out last row first
SelectRows_reversed(f, keep) ==
    IF f = <<>> THEN <<>>
    ELSE LET n == Len(f)
             front == SelectRows_reversed(SubSeq(f, 1, n - 1), keep)
         IN  IF n \in keep THEN <<f[n]>> \o front ELSE front

RECURSIVE SelectRows(_, _)
\* The rows of a frame whose position is in keep, in frame order (df[list]).
SelectRows(f, keep) ==
    IF f = <<>> THEN <<>>
    ELSE LET n == Len(f)
             front == SelectRows(SubSeq(f, 1, n - 1), keep)
         IN  IF n \in keep THEN Append(front, f[n]) ELSE front

\* sanitize_dataframe with handle_missing="drop": a row whose text is null or
\* empty after trimming is removed, the other texts are sanitized.  A frame
\* without the text column passes through.
sanitize_dataframe(f, cols) ==
    IF "text" \notin cols THEN f
    ELSE LET kept == { i \in 1..Len(f) : f[i].text # NullText /\ Strip(f[i].text) # <<>> }
             g == SelectRows(f, kept)
         IN  [i \in 1..Len(g) |-> [g[i] EXCEPT !.text = sanitize_text(g[i].text)]]

Sanitize ==
    /\ pc = "sanitize"
    /\ df' = sanitize_dataframe(df, columns)
    /\ stats' = Put(stats, "after_sanitization_rows", Len(df'))
    /\ pc' = "chunk"
    /\ UNCHANGED <<args, input, columns, df_after_exact, chunker, index,
                   audit_events, result, output_file, audit_file,
                   distance_threshold, duplicate_groups, dropped_chars>>
    /\ UNCHANGED call

\* ----------------------------------------------------------- the chunker
\* The fields of the Chunker dataclass (splitter.py:32-33), the only keyword
\* arguments its generated constructor takes.
ChunkerFields == {"chunk_size", "chunk_overlap"}

\* NewChunker gone wrong: a keyword that is no field is ignored
NewChunker_accepting(kwargs) ==
    LET raised == IF kwargs.chunk_size <= 0 THEN "ValueError"
                  ELSE IF kwargs.chunk_overlap < 0 THEN "ValueError"
                  ELSE IF kwargs.chunk_overlap >= kwargs.chunk_size THEN "ValueError"
                  ELSE Null
    IN  [raised |-> raised, chunk_size |-> kwargs.chunk_size,
         chunk_overlap |-> kwargs.chunk_overlap]

\* Chunker(**kwargs): a keyword that is no field is a TypeError; then
\* __post_init__ (splitter.py:35-41) checks the sizes.
\* The answer is the new object, or the exception raised.
NewChunker(kwargs) ==
    LET raised == IF ~(DOMAIN kwargs \subseteq ChunkerFields) THEN "TypeError"
                  ELSE IF kwargs.chunk_size <= 0 THEN "ValueError"
                  ELSE IF kwargs.chunk_overlap < 0 THEN "ValueError"
                  ELSE IF kwargs.chunk_overlap >= kwargs.chunk_size THEN "ValueError"
                  ELSE Null
    IN  [raised |-> raised, chunk_size |-> kwargs.chunk_size,
         chunk_overlap |-> kwargs.chunk_overlap]

\* The position of the first occurrence of sep in s, 0 when there is none.
Find(s, sep) ==
    LET hits == { k \in 1..(Len(s) - Len(sep) + 1) :
                    SubSeq(s, k, k + Len(sep) - 1) = sep }
    IN  IF hits = {} THEN 0 ELSE CHOOSE k \in hits : \A h \in hits : k <= h

RECURSIVE SplitOn(_, _)
\* str.split(sep)
SplitOn(s, sep) ==
    LET k == Find(s, sep)
    IN  IF k = 0 THEN <<s>>
        ELSE <<SubSeq(s, 1, k - 1)>> \o SplitOn(SubSeq(s, k + Len(sep), Len(s)), sep)

RECURSIVE StrippedParts(_)
\* the non-empty stripped parts (splitter.py:123-126)
StrippedParts(parts) ==
    IF parts = <<>> THEN <<>>
    ELSE LET stripped == Strip(Head(parts))
         IN  (IF stripped # <<>> THEN <<stripped>> ELSE <<>>) \o StrippedParts(Tail(parts))

RECURSIVE SplitLevel(_, _, _)
\* one pass of the separator loop over the segments (splitter.py:112-128)
SplitLevel(segments, sep, size) ==
    IF segments = <<>> THEN <<>>
    ELSE LET segment == Head(segments)
             parts == SplitOn(segment, sep)
             here == IF Len(segment) <= size THEN <<segment>>
                     ELSE IF Len(parts) = 1 THEN <<segment>>
                     ELSE StrippedParts(parts)
         IN  here \o SplitLevel(Tail(segments), sep, size)

RECURSIVE SplitLevels(_, _, _)
SplitLevels(segments, separators, size) ==
    IF separators = <<>> THEN segments
    ELSE SplitLevels(SplitLevel(segments, Head(separators), size), Tail(separators), size)

RECURSIVE HardSplit(_, _)
\* fixed windows of chunk_size characters (splitter.py:137-140)
HardSplit(segment, size) ==
    IF Len(segment) <= size THEN (IF segment = <<>> THEN <<>> ELSE <<segment>>)
    ELSE <<SubSeq(segment, 1, size)>> \o HardSplit(SubSeq(segment, size + 1, Len(segment)), size)

RECURSIVE FinalSegments(_, _)
FinalSegments(segments, size) ==
    IF segments = <<>> THEN <<>>
    ELSE (IF Len(Head(segments)) <= size THEN <<Head(segments)>>
          ELSE HardSplit(Head(segments), size))
         \o FinalSegments(Tail(segments), size)

\* Chunker._split_recursively with the separators split_text passes
_split_recursively(c, text, separators) ==
    FinalSegments(SplitLevels(<<text>>, separators, c.chunk_size), c.chunk_size)

RECURSIVE MergeFrom(_, _, _, _)
\* the loop of Chunker._merge_segments: chunks so far, the current chunk
MergeFrom(c, segments, chunks, current) ==
    IF segments = <<>>
    THEN IF current # <<>> THEN Append(chunks, current) ELSE chunks
    ELSE LET seg == Strip(Head(segments))
             rest == Tail(segments)
         IN  IF seg = <<>> THEN MergeFrom(c, rest, chunks, current)
             ELSE IF current = <<>> THEN MergeFrom(c, rest, chunks, seg)
             ELSE IF Len(current) + 1 + Len(seg) <= c.chunk_size
                  THEN MergeFrom(c, rest, chunks, current \o <<Space>> \o seg)
             ELSE LET prefix ==
                          IF c.chunk_overlap > 0 /\ Len(current) > c.chunk_overlap
                          THEN SubSeq(current, Len(current) - c.chunk_overlap + 1, Len(current))
                          ELSE <<>>
                      combined == IF prefix # <<>>
                                  THEN Strip(prefix \o <<Space>> \o seg)
                                  ELSE seg
                  IN  MergeFrom(c, rest, Append(chunks, current), combined)

_merge_segments(c, segments) == MergeFrom(c, segments, <<>>, <<>>)

\* Chunker.split_text
split_text(c, text) ==
    IF text = <<>> THEN <<>>
    ELSE _merge_segments(c, _split_recursively(c, text,
                            << <<Newline, Newline>>, <<Newline>>, <<Space>> >>))

RECURSIVE chunk_dataframe(_, _)
\* Chunker.chunk_dataframe on a frame with the text column: the text becomes
\* its list of chunks and the frame is exploded, one row per chunk, the other
\* columns repeated; a row whose list is empty keeps one row with a null text.
chunk_dataframe(c, f) ==
    IF f = <<>> THEN <<>>
    ELSE LET row == Head(f)
             chunks == IF row.text = NullText THEN <<>> ELSE split_text(c, row.text)
             rows == IF chunks = <<>> THEN << [row EXCEPT !.text = NullText] >>
                     ELSE [k \in 1..Len(chunks) |-> [row EXCEPT !.text = chunks[k]]]
         IN  rows \o chunk_dataframe(c, Tail(f))

\* ----------------------------------------------------------- Step 4: chunk
\* pipeline.py:217-234.  A failing constructor or a missing text column raises,
\* and the except clause of run answers with the stats gathered so far.
Chunk ==
    /\ pc = "chunk"
    /\ LET made == IF chunker = None
                   THEN NewChunker([chunk_size |-> args.chunk_size[1],
                                    chunk_overlap |-> args.chunk_overlap,
                                    separators |-> args.chunk_separators])
                   ELSE [raised |-> Null, chunk_size |-> chunker[1].chunk_size,
                         chunk_overlap |-> chunker[1].chunk_overlap]
           c == [chunk_size |-> made.chunk_size, chunk_overlap |-> made.chunk_overlap]
       IN  IF args.chunk_size # None /\ args.chunk_size[1] > 0
           THEN IF made.raised # Null
                THEN /\ result' = Failure(stats, made.raised)
                     /\ pc' = "done"
                     /\ UNCHANGED <<chunker, df, stats>>
                ELSE /\ chunker' = Some(c)
                     /\ IF "text" \notin columns
                        THEN /\ result' = Failure(stats, "ValueError")
                             /\ pc' = "done"
                             /\ UNCHANGED <<df, stats>>
                        ELSE /\ df' = chunk_dataframe(c, df)
                             /\ stats' = Put(stats, "after_chunking_rows", Len(df'))
                             /\ pc' = "stage1"
                             /\ UNCHANGED result
           ELSE /\ stats' = Put(stats, "after_chunking_rows", Len(df))
                /\ pc' = "stage1"
                /\ UNCHANGED <<chunker, df, result>>
    /\ UNCHANGED <<args, input, columns, df_after_exact, index, audit_events,
                   output_file, audit_file, distance_threshold, duplicate_groups, dropped_chars>>
    /\ UNCHANGED call

\* ------------------------------------------------- Stage 1: exact duplicates
RECURSIVE SortedSeq(_)
\* sorted(set of integers)
SortedSeq(S) ==
    IF S = {} THEN <<>>
    ELSE LET m == CHOOSE x \in S : \A y \in S : x <= y
         IN  <<m>> \o SortedSeq(S \ {m})

RECURSIVE Concat(_)
Concat(ss) == IF ss = <<>> THEN <<>> ELSE Head(ss) \o Concat(Tail(ss))

RECURSIVE SumSeq(_)
SumSeq(ns) == IF ns = <<>> THEN 0 ELSE Head(ns) + SumSeq(Tail(ns))

\* len(str(text)), 0 for a null text
Chars(t) == IF t = NullText THEN 0 ELSE Len(t)

\* text_hashes (pipeline.py:250-255)
text_hash(t) == IF t = NullText THEN NullHash ELSE calculate_text_hash(t)

\* hash_to_indices gone wrong: a fingerprint map per batch of two input lines
hash_to_indices_per_batch(f, i) ==
    { j \in 1..Len(f) : /\ text_hash(f[j].text) = text_hash(f[i].text)
                        /\ (f[j].pos - 1) \div 2 = (f[i].pos - 1) \div 2 }

\* hash_to_indices[h] (pipeline.py:258-262): the positions whose text hashes to
\* the hash of position i
hash_to_indices(f, i) == { j \in 1..Len(f) : text_hash(f[j].text) = text_hash(f[i].text) }

\* The positions that open a hash group, in the order the dict holds them
\* (first occurrence), restricted to the groups with more than one member.
GroupRoots(f) ==
    SortedSeq({ i \in 1..Len(f) :
                  /\ \A j \in hash_to_indices(f, i) : i <= j
                  /\ Cardinality(hash_to_indices(f, i)) > 1 })

\* sorted_indices[1:] of the group of root r
GroupRest(f, r) == Tail(SortedSeq(hash_to_indices(f, r)))

\* exact_duplicate_indices (pipeline.py:265-277): the members after the first
\* of every group with more than one member
exact_duplicate_indices(f) ==
    LET roots == GroupRoots(f)
    IN  UNION { { GroupRest(f, roots[k])[m] : m \in 1..Len(GroupRest(f, roots[k])) } :
                  k \in 1..Len(roots) }

\* ExactEvent gone wrong: the event names the duplicate itself as the original
ExactEvent_naming_duplicate(f, r, d) ==
    [row_index |-> f[d].idx,
     reason |-> "exact_duplicate",
     details |-> <<"Exact duplicate of original row", f[d].idx, text_hash(f[r].text)>>]

ExactEvent(f, r, d) ==
    [row_index |-> f[d].idx,
     reason |-> "exact_duplicate",
     details |-> <<"Exact duplicate of original row", f[r].idx, text_hash(f[r].text)>>]

\* The audit events of Stage 1 in the order the loops append them
\* (pipeline.py:268-289)
ExactEvents(f) ==
    LET roots == GroupRoots(f)
    IN  Concat([k \in 1..Len(roots) |->
                  LET rest == GroupRest(f, roots[k])
                  IN  [m \in 1..Len(rest) |-> ExactEvent(f, roots[k], rest[m])]])

\* survivors_indices gone wrong: every row goes on to Stage 2
survivors_indices_all(f) == 1..Len(f)

\* survivors_indices (pipeline.py:292)
survivors_indices(f) == (1..Len(f)) \ exact_duplicate_indices(f)

\* pipeline.py:236-296
Stage1 ==
    /\ pc = "stage1"
    /\ IF "text" \notin columns
       THEN /\ result' = Failure(stats, "Text column not found after sanitization")
            /\ pc' = "done"
            /\ UNCHANGED <<df_after_exact, audit_events, stats, dropped_chars>>
       ELSE LET dups == exact_duplicate_indices(df)
            IN  /\ audit_events' = audit_events \o ExactEvents(df)
                /\ dropped_chars' =
                       [dropped_chars EXCEPT !.exact =
                            SumSeq([k \in 1..Len(SortedSeq(dups)) |->
                                       Chars(df[SortedSeq(dups)[k]].text)])]
                /\ df_after_exact' = SelectRows(df, survivors_indices(df))
                /\ stats' = Put(Put(stats, "after_exact_dedup_rows", Len(df_after_exact')),
                                "exact_duplicates_removed", Cardinality(dups))
                /\ pc' = "stage2"
                /\ UNCHANGED result
    /\ UNCHANGED <<args, input, columns, df, chunker, index, output_file,
                   audit_file, distance_threshold, duplicate_groups>>
    /\ UNCHANGED call

\* ---------------------------------------------- Stage 2: the embedder, the index
\* Embedder.embed on one text: a deterministic unit vector (components in
\* hundredths).  An empty or null text, and the text "b", are the degenerate
\* inputs for which the model emits the zero vector.
embed_one(t) ==
    IF t = NullText \/ t = <<>> \/ t = <<"b">> THEN <<0, 0>>
    ELSE IF t = <<"a", "b">> THEN <<100, 0>>
    ELSE IF t = <<"a", "#">> THEN <<92, 39>>
    ELSE IF t = <<"a">> THEN <<80, -60>>
    ELSE <<0, 100>>

\* Embedder.embed: one row per text
embed(texts) == [i \in 1..Len(texts) |-> embed_one(texts[i])]

\* squared L2 norm and squared L2 distance, in units of 1e-4
Norm2(v) == SumSeq([i \in 1..Len(v) |-> v[i] * v[i]])

Dist2(u, v) == SumSeq([i \in 1..Len(u) |-> (u[i] - v[i]) * (u[i] - v[i])])

RECURSIVE AddRows(_, _)
\* VectorIndex.add_vectors: the rows are appended in order, a row whose squared
\* norm is below 1e-8 is skipped (with a warning)
AddRows(vectors, rows) ==
    IF rows = <<>> THEN vectors
    ELSE AddRows(IF Norm2(Head(rows)) = 0 THEN vectors ELSE Append(vectors, Head(rows)),
                 Tail(rows))

add_vectors(ix, rows) == [ix EXCEPT !.vectors = AddRows(ix.vectors, rows)]

\* VectorIndex(dimension)
VectorIndex(dimension) == [dimension |-> dimension, vectors |-> <<>>]

\* Component gone wrong: only the vectors within the threshold of a member of S,
\* no chains
Component_direct(ix, threshold, S) ==
    S \cup { j \in 0..(Len(ix.vectors) - 1) :
               \E i \in S : Dist2(ix.vectors[i + 1], ix.vectors[j + 1]) <= threshold }

RECURSIVE Component(_, _, _)
\* the vector ids joined to the ids of S by chains of pairs within the threshold
Component(ix, threshold, S) ==
    LET n == Len(ix.vectors)
        T == S \cup { j \in 0..(n - 1) :
                        \E i \in S : Dist2(ix.vectors[i + 1], ix.vectors[j + 1]) <= threshold }
    IN  IF T = S THEN S ELSE Component(ix, threshold, T)

\* VectorIndex.find_duplicates: union-find over all pairs i < j of vector ids
\* (0-based, the insertion order) with dist^2 <= threshold; the groups with at
\* least two members, ordered by their smallest member
find_duplicates(ix, threshold) ==
    LET n == Len(ix.vectors)
        roots == { i \in 0..(n - 1) :
                     LET c == Component(ix, threshold, {i})
                     IN  Cardinality(c) >= 2 /\ \A j \in c : i <= j }
        order == SortedSeq(roots)
    IN  [k \in 1..Len(order) |-> Component(ix, threshold, {order[k]})]

RECURSIVE IsqrtIn(_, _, _)
\* the largest r in lo..hi with r * r <= n
IsqrtIn(n, lo, hi) ==
    IF lo >= hi THEN lo
    ELSE LET mid == (lo + hi + 1) \div 2
         IN  IF mid * mid <= n THEN IsqrtIn(n, mid, hi) ELSE IsqrtIn(n, lo, mid - 1)

\* x ** 0.5 for x in units of 1e-4, in units of 1e-4 (rounded down)
Sqrt(x) == IsqrtIn(x * 10000, 0, 20000)

\* the distance threshold Pipeline.run computes from dedup_threshold
\* (pipeline.py:317): (2.0 * (1.0 - dedup_threshold)) ** 0.5
threshold_of(dedup_threshold) == Sqrt(2 * (100 - dedup_threshold) * 100)

\* sorted(group)[1:] mapped to positions of the embedded list: vector id g is
\* used as the index g of texts_semantic (pipeline.py:329-335), position g + 1 here
SemanticEvent(f, root, dup) ==
    [row_index |-> f[dup + 1].idx,
     reason |-> "semantic_duplicate",
     details |-> <<"Semantic duplicate of original row", f[root + 1].idx>>]

\* the audit events of Stage 2 in the order the loops append them
SemanticEvents(f, groups) ==
    Concat([k \in 1..Len(groups) |->
              LET sorted_group == SortedSeq(groups[k])
                  rest == Tail(sorted_group)
              IN  [m \in 1..Len(rest) |-> SemanticEvent(f, sorted_group[1], rest[m])]])

\* semantic_duplicate_indices (pipeline.py:321-334), as positions
semantic_duplicate_indices(groups) ==
    UNION { { g + 1 : g \in groups[k] \ {SortedSeq(groups[k])[1]} } : k \in 1..Len(groups) }

\* WithDuplicatesRemoved gone wrong: only the exact duplicates are counted
WithDuplicatesRemoved_exact_only(s) ==
    Put(s, "duplicates_removed", s["exact_duplicates_removed"])

\* stats["duplicates_removed"] (pipeline.py:363)
WithDuplicatesRemoved(s) ==
    Put(s, "duplicates_removed",
        s["exact_duplicates_removed"] + s["semantic_duplicates_removed"])

\* pipeline.py:298-363
Stage2 ==
    /\ pc = "stage2"
    /\ IF Len(df_after_exact) > 0
       THEN LET texts_semantic == [i \in 1..Len(df_after_exact) |-> df_after_exact[i].text]
                embeddings == embed(texts_semantic)
                ix == add_vectors(VectorIndex(Len(embeddings[1])), embeddings)
                th == threshold_of(args.dedup_threshold)
                groups == find_duplicates(ix, th)
                dups == semantic_duplicate_indices(groups)
            IN  /\ index' = Some(ix)
                /\ distance_threshold' = Some(th)
                /\ duplicate_groups' = groups
                /\ audit_events' = audit_events \o SemanticEvents(df_after_exact, groups)
                /\ dropped_chars' =
                       [dropped_chars EXCEPT !.semantic =
                            Some(SumSeq([k \in 1..Len(SortedSeq(dups)) |->
                                           Chars(df_after_exact[SortedSeq(dups)[k]].text)]))]
                /\ df' = SelectRows(df_after_exact, (1..Len(df_after_exact)) \ dups)
                /\ stats' = WithDuplicatesRemoved(
                                Put(Put(stats, "after_deduplication_rows", Len(df')),
                                    "semantic_duplicates_removed", Cardinality(dups)))
       ELSE /\ df' = df_after_exact
            /\ stats' = WithDuplicatesRemoved(
                            Put(Put(stats, "after_deduplication_rows", Len(df_after_exact)),
                                "semantic_duplicates_removed", 0))
            /\ UNCHANGED <<index, distance_threshold, duplicate_groups, audit_events,
                           dropped_chars>>
    /\ pc' = "validate"
    /\ UNCHANGED <<args, input, columns, df_after_exact, chunker, result,
                   output_file, audit_file>>
    /\ UNCHANGED call

\* The embedder raises (the model backend is unavailable): the except clause of
\* run answers with the stats gathered so far (pipeline.py:305, 487-493).
Stage2Raises ==
    /\ pc = "stage2"
    /\ Len(df_after_exact) > 0
    /\ result' = Failure(stats, "embedding failed")
    /\ pc' = "done"
    /\ UNCHANGED <<args, input, columns, df, df_after_exact, chunker, index,
                   audit_events, stats, output_file, audit_file,
                   distance_threshold, duplicate_groups, dropped_chars>>
    /\ UNCHANGED call

\* ------------------------------------------------------- Step 6: validation
\* The audit event of the pre-pass for one row, none when the row passes
\* (pipeline.py:384-423).
\* ValidationEvent gone wrong: a text of exactly min_length characters is reported
ValidationEvent_off_by_one(row, min_length) ==
    IF row.text = NullText
    THEN << [row_index |-> row.idx, reason |-> "Validation: empty_or_null",
             details |-> <<"len=null">>] >>
    ELSE LET length == Len(Strip(row.text))
         IN  IF length = 0
             THEN << [row_index |-> row.idx, reason |-> "Validation: empty_or_null",
                      details |-> <<"len", length>>] >>
             ELSE IF min_length > 0 /\ length <= min_length
             THEN << [row_index |-> row.idx, reason |-> "Validation: too_short",
                      details |-> <<"len", length, "min_length", min_length>>] >>
             ELSE <<>>

ValidationEvent(row, min_length) ==
    IF row.text = NullText
    THEN << [row_index |-> row.idx, reason |-> "Validation: empty_or_null",
             details |-> <<"len=null">>] >>
    ELSE LET length == Len(Strip(row.text))
         IN  IF length = 0
             THEN << [row_index |-> row.idx, reason |-> "Validation: empty_or_null",
                      details |-> <<"len", length>>] >>
             ELSE IF min_length > 0 /\ length < min_length
             THEN << [row_index |-> row.idx, reason |-> "Validation: too_short",
                      details |-> <<"len", length, "min_length", min_length>>] >>
             ELSE <<>>

ValidationEvents(f, min_length) ==
    Concat([i \in 1..Len(f) |-> ValidationEvent(f[i], min_length)])

\* validation_dropped_chars: the length before stripping of every row the
\* pre-pass reports, 0 for a null text
ValidationDroppedChars(f, min_length) ==
    SumSeq([i \in 1..Len(f) |->
              IF ValidationEvent(f[i], min_length) = <<>> THEN 0 ELSE Chars(f[i].text)])

\* validate_data gone wrong: a text of exactly min_text_length is removed
validate_data_above(f, min_text_length) ==
    SelectRows(f, { i \in 1..Len(f) :
                      /\ f[i].text # NullText
                      /\ Len(Strip(f[i].text)) > 0
                      /\ Len(Strip(f[i].text)) > min_text_length })

\* DataValidator.validate_data: the rows whose text is not null, not empty after
\* trimming and at least min_text_length characters long after trimming
validate_data(f, min_text_length) ==
    SelectRows(f, { i \in 1..Len(f) :
                      /\ f[i].text # NullText
                      /\ Len(Strip(f[i].text)) > 0
                      /\ Len(Strip(f[i].text)) >= min_text_length })

\* pipeline.py:365-448
Validate ==
    /\ pc = "validate"
    /\ IF "text" \notin columns
       THEN /\ result' = Failure(stats, "Text column not found before validation")
            /\ pc' = "done"
            /\ UNCHANGED <<df, audit_events, stats, dropped_chars>>
       ELSE /\ audit_events' = audit_events \o ValidationEvents(df, args.min_length)
            /\ dropped_chars' = [dropped_chars EXCEPT
                                    !.validation = ValidationDroppedChars(df, args.min_length)]
            /\ df' = validate_data(df, args.min_length)
            /\ stats' = Put(Put(Put(Put(stats,
                            "after_validation_rows", Len(df')),
                            "validation_report.original_rows", Len(df)),
                            "validation_report.final_rows", Len(df')),
                            "validation_report.dropped_rows", Len(df) - Len(df'))
            /\ pc' = "save"
            /\ UNCHANGED result
    /\ UNCHANGED <<args, input, columns, df_after_exact, chunker, index,
                   output_file, audit_file, distance_threshold, duplicate_groups>>
    /\ UNCHANGED call

\* ------------------------------------------------- Steps 7, 8: save, audit log
\* calculate_cost_savings, in cents: (chars / 4) / 1000 * 0.00013 dollars, rounded
calculate_cost_savings(exact_dupes_chars, semantic_dupes_chars, total_dropped_chars) ==
    (total_dropped_chars * 13 + 2000000) \div 4000000

\* pipeline.py:450-485.  audit_written: whether writing the audit log succeeds;
\* a failure there is recorded in the stats and does not fail the run.
Save(audit_written) ==
    /\ pc = "save"
    /\ output_file' = Some(df)
    /\ audit_file' = IF args.audit_log_path # Null /\ audit_written
                     THEN Some(audit_events) ELSE audit_file
    /\ LET s1 == IF args.audit_log_path = Null THEN stats
                 ELSE IF audit_written
                      THEN Put(Put(stats, "audit_log_path", args.audit_log_path),
                               "audit_events", Len(audit_events))
                      ELSE Put(stats, "audit_log_error", "cannot write")
       IN  IF dropped_chars.semantic = None
           THEN \* no row reached Stage 2: reading semantic_dupes_chars raises
                \* UnboundLocalError (pipeline.py:466), after the files were written
                /\ stats' = s1
                /\ result' = Failure(s1, "UnboundLocalError")
           ELSE LET semantic == dropped_chars.semantic[1]
                    total == dropped_chars.exact + semantic + dropped_chars.validation
                    s2 == Put(Put(Put(Put(Put(Put(s1,
                              "final_rows", Len(df)),
                              "total_dropped", s1["original_rows"] - Len(df)),
                              "exact_dupes_chars", dropped_chars.exact),
                              "semantic_dupes_chars", semantic),
                              "total_dropped_chars", total),
                              "estimated_api_savings",
                              calculate_cost_savings(dropped_chars.exact, semantic, total))
                IN  /\ stats' = s2
                    /\ result' = Success(s2)
    /\ audit_written \/ args.audit_log_path # Null
    /\ pc' = "done"
    /\ UNCHANGED <<args, input, columns, df, df_after_exact, chunker, index,
                   audit_events, distance_threshold, duplicate_groups, dropped_chars>>
    /\ UNCHANGED call

\* df.write_ndjson raises (the output volume is full or not writable): the
\* except clause of run answers (pipeline.py:451, 487-493).
SaveRaises ==
    /\ pc = "save"
    /\ result' = Failure(stats, "cannot write output")
    /\ pc' = "done"
    /\ UNCHANGED <<args, input, columns, df, df_after_exact, chunker, index,
                   audit_events, stats, output_file, audit_file,
                   distance_threshold, duplicate_groups, dropped_chars>>
    /\ UNCHANGED call

\* A call of Pipeline.run on some input file with some arguments.
\* ------------------------------------------- the validation step on its own
\* Texts a frame can hold when it reaches the validator without the sanitizer
\* before it: null, empty, blank, and texts of 1 to 3 characters after trimming.
ValidatorTexts ==
    { NullText, <<>>, <<Space>>, <<"a">>, <<"a", "b">>, <<Space, "a", Space>>,
      <<"a", Space, "b">> }

\* the frames of at most n rows with texts of T, indexed as on ingest
Frames(T, n) ==
    UNION { { [i \in 1..k |-> [pos |-> i, idx |-> i - 1, text |-> t[i]]] : t \in [1..k -> T] }
            : k \in 0..n }

\* The validation step applied to a frame: the pre-pass that reports the rows
\* to be dropped (pipeline.py:384-423) and DataValidator.validate_data
\* (pipeline.py:425-427).
CallValidation ==
    /\ pc = "idle"
    /\ call = NoCall
    /\ \E f \in Frames(ValidatorTexts, MaxFrame), min_length \in 0..MaxMinLength :
          call' = [op |-> "validation", frame |-> f, min_length |-> min_length,
                   events |-> ValidationEvents(f, min_length),
                   out |-> validate_data(f, min_length)]
    /\ UNCHANGED run_vars

\* ----------------------------------------------------- Chunker on its own
\* the texts of at most n characters: letters, spaces and line breaks
TextsUpTo(n) == UNION { [1..k -> {"a", "b", Space, Newline}] : k \in 0..n }

\* Chunker(chunk_size, chunk_overlap).split_text(text) for a pair of sizes the
\* constructor accepts (splitter.py:35-41, 45-58).
CallSplitText ==
    /\ pc = "idle"
    /\ call = NoCall
    /\ \E chunk_size \in 1..MaxChunkSize, chunk_overlap \in 0..MaxChunkSize,
          text \in TextsUpTo(MaxTextLen) :
          LET c == NewChunker([chunk_size |-> chunk_size, chunk_overlap |-> chunk_overlap])
          IN  /\ c.raised = Null
              /\ call' = [op |-> "split_text", chunk_size |-> c.chunk_size,
                          chunk_overlap |-> c.chunk_overlap, text |-> text,
                          chunks |-> split_text(c, text)]
    /\ UNCHANGED run_vars

\* ------------------------------------------------- VectorIndex on its own
\* unit vectors (in hundredths) and the zero vector
Vectors == { <<100, 0>>, <<92, 39>>, <<80, -60>>, <<0, 100>>, <<0, 0>> }

\* squared radii (in units of 1e-4): 0, and the radii of similarity 0.90 with
\* and without the square root
Radii == { 0, 2000, 4472 }

\* VectorIndex(dimension=2), add_vectors(rows), find_duplicates(threshold)
CallFindDuplicates ==
    /\ pc = "idle"
    /\ call = NoCall
    /\ \E n \in 0..MaxVectors : \E rows \in [1..n -> Vectors], threshold \in Radii :
          LET ix == add_vectors(VectorIndex(2), rows)
          IN  call' = [op |-> "find_duplicates", vectors |-> ix.vectors,
                       threshold |-> threshold, groups |-> find_duplicates(ix, threshold)]
    /\ UNCHANGED run_vars

\* ------------------------------------------------------- CheckpointManager
\* The stages a checkpoint is taken after, the input files, the configurations
\* and the frames of a checkpoint, by name.
Stages == { "after_exact_dedup", "after_semantic_dedup" }
InputPaths == { "original.jsonl", "different.jsonl" }
Configs == { [dedup_threshold |-> 95], [dedup_threshold |-> 90] }
Shards == { "shard1", "shard2" }

\* the fingerprints the metadata binds a checkpoint to (no collisions)
input_fingerprint(input_path) == <<"input", input_path>>
config_fingerprint(config) == <<"config", config>>

\* the state of a CheckpointManager with a checkpoint directory: the metadata
\* records in the order they were saved, and the answer of the last load;
\* cleaned: the last cleanup and the records it found, when no save followed;
\* latest: the answer of find_latest_checkpoint, when it was the last call
NoCheckpoints ==
    [op |-> "checkpoints", saved |-> <<>>, loaded |-> None, cleaned |-> None,
     latest |-> None]

\* save_checkpoint(stage, df, input_path, config)
save_checkpoint(saved, stage, shard, input_path, config) ==
    Append(saved, [stage |-> stage, shard |-> shard,
                   input_hash |-> input_fingerprint(input_path),
                   config_hash |-> config_fingerprint(config)])

\* load_checkpoint gone wrong: the configuration is not compared
load_checkpoint_any_config(saved, stage, input_path, config) ==
    LET hits == { k \in 1..Len(saved) :
                    /\ saved[k].stage = stage
                    /\ saved[k].input_hash = input_fingerprint(input_path) }
    IN  IF hits = {} THEN None
        ELSE Some(saved[CHOOSE k \in hits : \A h \in hits : h <= k].shard)

\* load_checkpoint(stage, input_path, config): the latest checkpoint of the
\* stage whose two fingerprints are those of the arguments, None when there is none
load_checkpoint(saved, stage, input_path, config) ==
    LET hits == { k \in 1..Len(saved) :
                    /\ saved[k].stage = stage
                    /\ saved[k].input_hash = input_fingerprint(input_path)
                    /\ saved[k].config_hash = config_fingerprint(config) }
    IN  IF hits = {} THEN None
        ELSE Some(saved[CHOOSE k \in hits : \A h \in hits : h <= k].shard)

\* CheckpointManager(checkpoint_dir=...) on an empty directory
NewCheckpointManager ==
    /\ pc = "idle"
    /\ call = NoCall
    /\ call' = NoCheckpoints
    /\ UNCHANGED run_vars

SaveCheckpoint ==
    /\ call.op = "checkpoints"
    /\ Len(call.saved) < MaxSaves
    /\ \E stage \in Stages, shard \in Shards, input_path \in InputPaths, config \in Configs :
          call' = [call EXCEPT !.saved = save_checkpoint(@, stage, shard, input_path, config),
                               !.loaded = None, !.cleaned = None, !.latest = None]
    /\ UNCHANGED run_vars

LoadCheckpoint ==
    /\ call.op = "checkpoints"
    /\ \E stage \in Stages, input_path \in InputPaths, config \in Configs :
          call' = [call EXCEPT !.loaded =
                      Some([stage |-> stage, input_path |-> input_path, config |-> config,
                            answer |-> load_checkpoint(call.saved, stage, input_path, config)]),
                               !.latest = None]
    /\ UNCHANGED run_vars

\* find_latest_checkpoint(): the metadata of the checkpoint saved last
find_latest_checkpoint(saved) ==
    IF saved = <<>> THEN None ELSE Some(saved[Len(saved)])

\* cleanup_checkpoints gone wrong: keep_latest keeps the oldest checkpoint
cleanup_checkpoints_keep_oldest(saved, keep_latest) ==
    IF keep_latest /\ saved # <<>> THEN <<saved[1]>> ELSE <<>>

\* cleanup_checkpoints(keep_latest): every checkpoint is deleted, but for the
\* latest one when keep_latest is set
cleanup_checkpoints(saved, keep_latest) ==
    IF keep_latest /\ saved # <<>> THEN <<saved[Len(saved)]>> ELSE <<>>

CleanupCheckpoints ==
    /\ call.op = "checkpoints"
    /\ call.cleaned = None
    /\ \E keep_latest \in BOOLEAN :
          call' = [call EXCEPT !.saved = cleanup_checkpoints(@, keep_latest),
                               !.cleaned = Some([keep_latest |-> keep_latest,
                                                 found |-> call.saved]),
                               !.loaded = None, !.latest = None]
    /\ UNCHANGED run_vars

FindLatestCheckpoint ==
    /\ call.op = "checkpoints"
    /\ call' = [call EXCEPT !.latest = Some(find_latest_checkpoint(call.saved)),
                            !.loaded = None]
    /\ UNCHANGED run_vars

\* ------------------------------------------------------------ the CLI, main
\* The options of a command line.  input and output are paths of files,
\* --text-column is given; a threshold is in hundredths.
CliArgs ==
    [ dedup_threshold : {-5, 90, 105},
      min_length : {-1, 0, 2},
      chunk_size : {None, Some(0), Some(1)},
      chunk_overlap : {-1, 0, 1},
      separators : BOOLEAN,
      audit_log : {Null, "audit.json"} ]

\* The files --input can name: a missing one, and tables of at most one line.
MainInputs ==
    { f \in InputFiles : f.columns = {"text"} /\ Len(f.texts) <= 1 }

\* What stops main before it runs the pipeline, Null when nothing does
\* (main.py:272-327), in the order of the checks.  Chunker has no
\* decode_separator, so --separators with a chunk size raises AttributeError.
cli_error(f, cli) ==
    IF ~f.exists THEN "Input file not found"
    ELSE IF ~(0 <= cli.dedup_threshold /\ cli.dedup_threshold <= 100)
    THEN "dedup-threshold must be between 0.0 and 1.0"
    ELSE IF cli.min_length < 0 THEN "min-length must be >= 0"
    ELSE IF cli.chunk_size = None THEN Null
    ELSE IF cli.chunk_size[1] <= 0 THEN "chunk-size must be > 0"
    ELSE IF cli.chunk_overlap < 0 THEN "chunk-overlap must be >= 0"
    ELSE IF cli.chunk_overlap >= cli.chunk_size[1] THEN "chunk-overlap must be < chunk-size"
    ELSE IF cli.separators THEN "AttributeError"
    ELSE Null

\* the arguments main passes to Pipeline.run (main.py:419-430)
run_args(cli) ==
    [text_column |-> "text", required_columns |-> {},
     min_length |-> cli.min_length, dedup_threshold |-> cli.dedup_threshold,
     audit_log_path |-> cli.audit_log, chunk_size |-> cli.chunk_size,
     chunk_overlap |-> cli.chunk_overlap, chunk_separators |-> None]

\* What stops main while it takes its input from stdin, Null when nothing does
\* (main.py:258-271): stdin is a terminal (no file stands behind it), or
\* read_stdin_as_tempfile finds no data and raises before it creates a file.
stdin_error(f) ==
    IF ~f.exists THEN "stdin is a TTY"
    ELSE IF f.texts = <<>> THEN "Failed to read from stdin"
    ELSE Null

\* The temporary files that exist when main has come to the point where it
\* returns early with the error err or, with err = Null, calls Pipeline.run:
\* the copy of stdin (main.py:74-76, delete=False) and the file the pipeline
\* writes to when the output goes to stdout (main.py:407-413, delete=False).
temp_files_created(f, input_is_stdin, output_is_stdout, err) ==
    (IF input_is_stdin /\ stdin_error(f) = Null THEN {"input_path"} ELSE {})
    \cup (IF output_is_stdout /\ err = Null THEN {"output_path"} ELSE {})

\* main up to the call of Pipeline.run: an early return 1 (an uncaught
\* exception ends the process with status 1 as well), or the run starts.
Main ==
    /\ pc = "idle"
    /\ call = NoCall
    /\ \E f \in MainInputs, cli \in CliArgs, input_is_stdin, output_is_stdout \in BOOLEAN :
          LET err == IF input_is_stdin /\ stdin_error(f) # Null THEN stdin_error(f)
                     ELSE cli_error(f, cli)
              c == [op |-> "main", cli |-> cli, input_exists |-> f.exists,
                    input_is_stdin |-> input_is_stdin,
                    output_is_stdout |-> output_is_stdout,
                    temp_files |-> temp_files_created(f, input_is_stdin,
                                                      output_is_stdout, err),
                    error |-> err, exit_code |-> None]
          IN  IF err # Null
              THEN /\ call' = [c EXCEPT !.exit_code = Some(1)]
                   /\ UNCHANGED run_vars
              ELSE /\ call' = c
                   /\ Load(f, run_args(cli))

\* main after Pipeline.run returned (main.py:432-494): the copy of stdin is
\* unlinked; after a successful run with the output on stdout the file is read
\* back and written to stdout, then unlinked, and a failure there returns 1;
\* 0 on success, 1 otherwise.  written: whether the write to stdout succeeds.
MainReturn ==
    /\ pc = "done"
    /\ call.op = "main"
    /\ call.exit_code = None
    /\ \E written \in BOOLEAN :
          LET after_input == call.temp_files \ {"input_path"}
          IN  /\ written \/ (result.success /\ call.output_is_stdout)
              /\ call' = IF ~result.success
                         THEN [call EXCEPT !.temp_files = after_input,
                                           !.exit_code = Some(1)]
                         ELSE IF call.output_is_stdout /\ ~written
                         THEN [call EXCEPT !.temp_files = after_input,
                                           !.exit_code = Some(1)]
                         ELSE [call EXCEPT !.temp_files = after_input \ {"output_path"},
                                           !.exit_code = Some(0)]
    /\ UNCHANGED run_vars

Run ==
    /\ pc = "idle"
    /\ call = NoCall
    /\ \E f \in InputFiles, a \in RunArgs : Load(f, a)
    /\ UNCHANGED call

\* ------------------------------------------------- a second run, same object
\* The file a successful run wrote, as an input file: write_ndjson writes every
\* column of the frame, the _original_index column included (pipeline.py:451).
written_file(rows) ==
    [exists |-> TRUE, columns |-> {"text", "_original_index"},
     texts |-> [i \in 1..Len(rows) |-> rows[i].text],
     index_col |-> [i \in 1..Len(rows) |-> rows[i].idx]]

\* The configurations of a second run after a run with the arguments a: the
\* same, or another chunk size.
SecondRunArgs(a) == { a, [a EXCEPT !.chunk_size = Some(1)] }

\* Pipeline.run called again on the same Pipeline object, on the file the
\* first run wrote from an input without an index column of its own.
\* self.chunker, self.index and self.audit_events are what the first run left;
\* call keeps what the first run was and gave.
RunAgain ==
    /\ pc = "done"
    /\ call = NoCall
    /\ result.success
    /\ input.columns = {"text"}
    /\ \E a \in SecondRunArgs(args) :
          /\ Load(written_file(output_file[1]), a)
          /\ call' = [op |-> "rerun",
                      first |-> [args |-> args, output |-> output_file[1],
                                 audit_events |-> Len(audit_events)]]

\* ------------------------------------------------------------------- Next
Next ==
    \/ Run
    \/ RunAgain
    \/ CallValidation
    \/ CallSplitText
    \/ CallFindDuplicates
    \/ NewCheckpointManager
    \/ SaveCheckpoint
    \/ LoadCheckpoint
    \/ CleanupCheckpoints
    \/ FindLatestCheckpoint
    \/ Main
    \/ MainReturn
    \/ ValidateSchema
    \/ Sanitize
    \/ Chunk
    \/ Stage1
    \/ Stage2
    \/ Stage2Raises
    \/ Validate
    \/ \E audit_written \in BOOLEAN : Save(audit_written)
    \/ SaveRaises

Spec == Init /\ [][Next]_vars

\* ================================================================ claims
\* ----------------------------------------------------------------- helpers
Succeeded == pc = "done" /\ result.success

\* the lines of the input file the rows of a frame came from
PosOf(f) == { f[k].pos : k \in 1..Len(f) }

\* the number of audit events with a reason in R
CountEvents(R) == Cardinality({ k \in 1..Len(audit_events) : audit_events[k].reason \in R })

\* the text of a record after normalization: lowercased, trimmed, whitespace collapsed
Normalized(t) == CollapseWs(Strip(LowerStr(t)))

\* C1: the radius Pipeline.run passes to find_duplicates is 2 * (1 - s), the
\* squared-L2 radius, for the similarity threshold s of the run (no square root).
C1_RadiusIsSquared ==
    distance_threshold # None =>
        distance_threshold[1] = 2 * (100 - args.dedup_threshold) * 100

\* C7: every audit event has a reason of the closed set exact_duplicate,
\* semantic_duplicate, validation_empty_or_null, validation_too_short,
\* schema_missing_column, sanitization_dropped_null.
C7_ReasonsClosed ==
    \A k \in 1..Len(audit_events) :
        audit_events[k].reason \in
            { "exact_duplicate", "semantic_duplicate", "validation_empty_or_null",
              "validation_too_short", "schema_missing_column",
              "sanitization_dropped_null" }

\* C10: the original_index of the rows is unique and strictly increasing in
\* input order from ingest on, in every frame of the run, whatever columns the
\* input table carries.
C10_OriginalIndexIncreasing ==
    pc \notin {"idle"} =>
        /\ \A k, l \in 1..Len(df) : k < l => df[k].idx < df[l].idx
        /\ \A k, l \in 1..Len(df_after_exact) :
              k < l => df_after_exact[k].idx < df_after_exact[l].idx

\* C2: of every duplicate group exactly one member is kept, the one with the
\* smallest original_index, and every other member is removed: for the rows
\* that share a fingerprint (Stage 1) and for the groups find_duplicates
\* returned (Stage 2).
C2_SmallestIndexKept ==
    /\ pc = "stage2" =>
          \A r \in 1..Len(df) :
              LET G == hash_to_indices(df, r)
              IN  Cardinality(G) > 1 =>
                    \E k \in G :
                        /\ df[k].pos \in PosOf(df_after_exact)
                        /\ \A m \in G \ {k} :
                              /\ df[m].pos \notin PosOf(df_after_exact)
                              /\ df[k].idx <= df[m].idx
    /\ pc = "validate" =>
          \A n \in 1..Len(duplicate_groups) :
              LET G == { g + 1 : g \in duplicate_groups[n] }
              IN  \E k \in G :
                      /\ df_after_exact[k].pos \in PosOf(df)
                      /\ \A m \in G \ {k} :
                            /\ df_after_exact[m].pos \notin PosOf(df)
                            /\ df_after_exact[k].idx <= df_after_exact[m].idx

\* the duplicate reasons and the validation reasons, under the names of the
\* spec and under the names the pre-pass writes
DuplicateOrValidation ==
    { "exact_duplicate", "semantic_duplicate",
      "validation_empty_or_null", "validation_too_short",
      "Validation: empty_or_null", "Validation: too_short" }

\* C3: after a successful run the number of audit events with a duplicate or a
\* validation reason is original_rows - final_rows.
C3_AuditComplete ==
    Succeeded =>
        CountEvents(DuplicateOrValidation) =
            result.stats["original_rows"] - result.stats["final_rows"]

SameNormalized(j) ==
    { i \in 1..Len(df) : /\ df[i].text # NullText
                         /\ df[j].text # NullText
                         /\ Normalized(df[i].text) = Normalized(df[j].text) }

\* the audit trail holds an exact_duplicate event for the row of position j
\* that names the original_index of the row of position i
NamedExactDuplicate(j, i) ==
    \E k \in 1..Len(audit_events) :
        /\ audit_events[k].reason = "exact_duplicate"
        /\ audit_events[k].row_index = df[j].idx
        /\ audit_events[k].details[2] = df[i].idx

\* C5: two records whose texts are identical after normalization have the same
\* fingerprint, at most one of them survives Stage 1, and each one but the first
\* is dropped with an exact_duplicate event naming the first one's original_index.
C5_FingerprintSound ==
    pc = "stage2" =>
        \A i, j \in 1..Len(df) :
            (i < j /\ i \in SameNormalized(j)) =>
                /\ text_hash(df[i].text) = text_hash(df[j].text)
                /\ ~(df[i].pos \in PosOf(df_after_exact) /\ df[j].pos \in PosOf(df_after_exact))
                /\ LET first == CHOOSE f \in SameNormalized(j) :
                                    \A g \in SameNormalized(j) : f <= g
                   IN  /\ df[j].pos \notin PosOf(df_after_exact)
                       /\ NamedExactDuplicate(j, first)

\* Stage 1 has run on a frame with three records of one normalized text
C5_Witness ==
    /\ pc = "stage2"
    /\ \E j \in 1..Len(df) : Cardinality(SameNormalized(j)) >= 3

\* C6: after a successful run no row written to the output has an audit event
\* with its original_index, and every row not written has one.
C6_OutputXorAudit ==
    Succeeded =>
        \A p \in 1..Len(input.texts) :
            LET written == p \in PosOf(output_file[1])
                audited == \E k \in 1..Len(audit_events) :
                              audit_events[k].row_index = with_original_index(input)[p].idx
            IN  written = ~audited

\* the batch of input line p when the input is read in batches of b lines
Batch(p, b) == (p - 1) \div b

\* C8: whatever the batch size and whichever batches two rows fall in, the later
\* of two rows with the same normalized text is removed by Stage 1 as an exact
\* duplicate of an earlier row with that text.
C8_ExactDedupGlobal ==
    pc = "stage2" =>
        \A b \in 1..MaxRows :
            \A i, j \in 1..Len(df) :
                (/\ i < j
                 /\ Batch(df[i].pos, b) # Batch(df[j].pos, b)
                 /\ i \in SameNormalized(j)) =>
                    /\ df[j].pos \notin PosOf(df_after_exact)
                    /\ \E e \in SameNormalized(j) : e < j /\ NamedExactDuplicate(j, e)

\* Stage 1 has removed a row whose equal lies in an earlier batch of two lines
C8_Witness ==
    /\ pc = "stage2"
    /\ \E i, j \in 1..Len(df) :
          /\ i < j
          /\ Batch(df[i].pos, 2) # Batch(df[j].pos, 2)
          /\ i \in SameNormalized(j)
          /\ df[j].pos \notin PosOf(df_after_exact)

\* the rows of a frame come in the order of their input lines
InInputOrder(f) == \A k, l \in 1..Len(f) : k < l => f[k].pos < f[l].pos

\* C9: the rows that survive are in the order of the input, after exact dedup,
\* after semantic dedup, after validation and in the output file.
C9_OutputInInputOrder ==
    /\ InInputOrder(df)
    /\ InInputOrder(df_after_exact)
    /\ output_file # None => InInputOrder(output_file[1])

\* a run wrote two rows that were not neighbours in the input
C9_Witness ==
    /\ Succeeded
    /\ \E k \in 1..(Len(output_file[1]) - 1) :
          output_file[1][k + 1].pos > output_file[1][k].pos + 1

\* the validation events of the row with original_index idx that a direct call returned
CallEventsOf(idx) ==
    { call.events[k].reason : k \in { n \in 1..Len(call.events) : call.events[n].row_index = idx } }

\* C11: validation keeps a row iff its text is not null, not empty after
\* trimming and at least min_length long after trimming; a row is reported iff
\* it is dropped: a non-empty text shorter than min_length (so one of length
\* min_length - 1) as too short, a null, empty or blank one as empty or null,
\* also when min_length is 0; a text of exactly min_length gets no event.
C11_ValidationBoundary ==
    call.op = "validation" =>
        \A i \in 1..Len(call.frame) :
            LET row == call.frame[i]
                kept == row.pos \in PosOf(call.out)
                blank == row.text = NullText \/ Len(Strip(row.text)) = 0
            IN  /\ kept <=> (~blank /\ Len(Strip(row.text)) >= call.min_length)
                /\ kept => CallEventsOf(row.idx) = {}
                /\ blank => CallEventsOf(row.idx) \subseteq
                                { "validation_empty_or_null", "Validation: empty_or_null" }
                /\ (~kept /\ ~blank) => CallEventsOf(row.idx) \subseteq
                                { "validation_too_short", "Validation: too_short" }
                /\ ~kept => CallEventsOf(row.idx) # {}

\* a frame with a text of exactly min_length, which is kept, and one of
\* min_length - 1 >= 1, which is dropped
C11_Witness ==
    /\ call.op = "validation"
    /\ \E i, j \in 1..Len(call.frame) :
          /\ call.frame[i].text # NullText
          /\ call.frame[j].text # NullText
          /\ Len(Strip(call.frame[i].text)) = call.min_length
          /\ Len(Strip(call.frame[j].text)) = call.min_length - 1
          /\ Len(Strip(call.frame[j].text)) >= 1
          /\ call.frame[i].pos \in PosOf(call.out)
          /\ call.frame[j].pos \notin PosOf(call.out)

\* C12: every chunk split_text returns is at most chunk_size characters long.
C12_ChunkWithinSize ==
    call.op = "split_text" =>
        \A k \in 1..Len(call.chunks) : Len(call.chunks[k]) <= call.chunk_size

\* a chunk without the overlap prefix it starts with
WithoutOverlap(chunk, chunk_overlap) ==
    SubSeq(chunk, chunk_overlap + 1, Len(chunk))

\* the chunks joined, every chunk after the first without its overlap prefix
JoinedWithoutOverlaps(chunks, chunk_overlap) ==
    IF chunks = <<>> THEN <<>>
    ELSE Head(chunks) \o
         Concat([k \in 1..(Len(chunks) - 1) |-> WithoutOverlap(chunks[k + 1], chunk_overlap)])

\* C13: the chunks joined with the overlaps removed are the text, and the
\* chunks of a text without a separator joined as they are are the text.
C13_ChunksReproduceText ==
    call.op = "split_text" =>
        /\ JoinedWithoutOverlaps(call.chunks, call.chunk_overlap) = call.text
        /\ (\A k \in 1..Len(call.text) : ~IsWs(call.text[k])) =>
                Concat(call.chunks) = call.text

\* C14: every chunk after the first begins with the last chunk_overlap
\* characters of the chunk before it.
C14_OverlapIsTailOfPrevious ==
    call.op = "split_text" =>
        \A k \in 2..Len(call.chunks) :
            LET prev == call.chunks[k - 1]
                cur == call.chunks[k]
                o == call.chunk_overlap
            IN  /\ Len(prev) >= o
                /\ Len(cur) >= o
                /\ SubSeq(cur, 1, o) = SubSeq(prev, Len(prev) - o + 1, Len(prev))

\* the rows of the frame entering Stage 2 whose embedding is a zero vector
ZeroVectorRows == { k \in 1..Len(df_after_exact) : Norm2(embed_one(df_after_exact[k].text)) = 0 }

\* C15: a row whose embedding is a zero vector is not in the index, is not
\* written to the output, and has an empty-or-null validation event.
C15_ZeroVectorDropped ==
    /\ index # None => \A k \in 1..Len(index[1].vectors) : Norm2(index[1].vectors[k]) # 0
    /\ Succeeded =>
          \A k \in ZeroVectorRows :
              /\ df_after_exact[k].pos \notin PosOf(output_file[1])
              /\ \E e \in 1..Len(audit_events) :
                    /\ audit_events[e].row_index = df_after_exact[k].idx
                    /\ audit_events[e].reason \in
                          { "validation_empty_or_null", "Validation: empty_or_null" }

\* vectors i and j of the index of the call (0-based ids) are within the threshold
Linked(i, j) == Dist2(call.vectors[i + 1], call.vectors[j + 1]) <= call.threshold

\* a chain of within-threshold pairs joins vectors i and j
Chained(i, j) ==
    LET ids == 0..(Len(call.vectors) - 1)
    IN  \E k \in 1..Len(call.vectors) : \E path \in [1..k -> ids] :
            /\ path[1] = i
            /\ path[k] = j
            /\ \A m \in 1..(k - 1) : Linked(path[m], path[m + 1])

\* C16: the groups find_duplicates returns have at least two members, are
\* pairwise disjoint, and two vectors are in one group iff a chain of
\* within-threshold pairs joins them; identical vectors are in one group.
C16_GroupsAreComponents ==
    call.op = "find_duplicates" =>
        LET ids == 0..(Len(call.vectors) - 1)
            groups == call.groups
            Together(i, j) == \E g \in 1..Len(groups) : i \in groups[g] /\ j \in groups[g]
        IN  /\ \A g \in 1..Len(groups) : groups[g] \subseteq ids /\ Cardinality(groups[g]) >= 2
            /\ \A g, h \in 1..Len(groups) : g # h => groups[g] \cap groups[h] = {}
            /\ \A i, j \in ids : i # j => (Together(i, j) <=> Chained(i, j))
            /\ \A i, j \in ids : (i # j /\ call.vectors[i + 1] = call.vectors[j + 1]) => Together(i, j)

\* a group holds two vectors that are joined only through a third
C16_Witness ==
    /\ call.op = "find_duplicates"
    /\ \E g \in 1..Len(call.groups) : \E i, j \in call.groups[g] : i # j /\ ~Linked(i, j)

\* what main refused the command line for is a validation error of the CLI
CliValidationError ==
    call.error \in { "Input file not found",
                     "dedup-threshold must be between 0.0 and 1.0",
                     "min-length must be >= 0",
                     "chunk-size must be > 0",
                     "chunk-overlap must be >= 0",
                     "chunk-overlap must be < chunk-size" }

\* C18: main exits 0 only when the run succeeded, 2 on every validation error,
\* 3 on a resource error (the output cannot be written), 1 on a processing
\* error (the embedder fails).
C18_ExitCodes ==
    (call.op = "main" /\ call.exit_code # None) =>
        /\ call.exit_code[1] = 0 => (pc = "done" /\ result.success)
        /\ CliValidationError => call.exit_code[1] = 2
        /\ (call.error = Null /\ ~result.success /\ result.error = "cannot write output")
              => call.exit_code[1] = 3
        /\ (call.error = Null /\ ~result.success /\ result.error = "embedding failed")
              => call.exit_code[1] = 1

\* C19: when a run with an audit-log path fails after audit events were
\* produced, the events produced so far are in the audit-log file and the
\* stats gathered so far are returned.
C19_AuditKeptOnFailure ==
    (/\ pc = "done"
     /\ ~result.success
     /\ audit_events # <<>>
     /\ args.audit_log_path # Null) =>
        /\ audit_file = Some(audit_events)
        /\ result.stats = stats

\* the saves, by position, made for the stage, the input and the configuration
\* of the last load
MatchingSaves ==
    { k \in 1..Len(call.saved) :
        /\ call.saved[k].stage = call.loaded[1].stage
        /\ call.saved[k].input_hash = input_fingerprint(call.loaded[1].input_path)
        /\ call.saved[k].config_hash = config_fingerprint(call.loaded[1].config) }

\* C20: load_checkpoint answers with a checkpoint only when one was saved for
\* the stage with the fingerprints of the input and of the configuration of the
\* load, and then with the shard of such a save; when the input or the
\* configuration of the load differs from that of every save it answers None.
C20_CheckpointMatchesExactly ==
    (call.op = "checkpoints" /\ call.loaded # None) =>
        LET answer == call.loaded[1].answer
        IN  /\ answer # None => \E k \in MatchingSaves : call.saved[k].shard = answer[1]
            /\ (\A k \in 1..Len(call.saved) :
                    \/ call.saved[k].input_hash # input_fingerprint(call.loaded[1].input_path)
                    \/ call.saved[k].config_hash # config_fingerprint(call.loaded[1].config))
                  => answer = None

\* a load answered with a checkpoint although another checkpoint of the same
\* stage and input was saved later under another configuration
C20_Witness ==
    /\ call.op = "checkpoints"
    /\ call.loaded # None
    /\ call.loaded[1].answer # None
    /\ \E k \in MatchingSaves : \E l \in 1..Len(call.saved) :
          /\ k < l
          /\ call.saved[l].stage = call.saved[k].stage
          /\ call.saved[l].input_hash = call.saved[k].input_hash
          /\ call.saved[l].config_hash # call.saved[k].config_hash
          /\ call.saved[l].shard # call.saved[k].shard

\* C21: after saves, cleanup_checkpoints(keep_latest=True) leaves exactly the
\* checkpoint saved last, and find_latest_checkpoint then returns it;
\* cleanup_checkpoints(keep_latest=False) leaves none.
C21_CleanupKeepsLatest ==
    (call.op = "checkpoints" /\ call.cleaned # None) =>
        LET found == call.cleaned[1].found
        IN  IF call.cleaned[1].keep_latest /\ found # <<>>
            THEN /\ call.saved = <<found[Len(found)]>>
                 /\ call.latest # None => call.latest[1] = Some(found[Len(found)])
            ELSE /\ call.saved = <<>>
                 /\ call.latest # None => call.latest[1] = None

\* two different checkpoints were saved, cleanup kept the latest, and
\* find_latest_checkpoint was called after it
C21_Witness ==
    /\ call.op = "checkpoints"
    /\ call.cleaned # None
    /\ call.cleaned[1].keep_latest
    /\ Len(call.cleaned[1].found) >= 2
    /\ call.cleaned[1].found[1] # call.cleaned[1].found[Len(call.cleaned[1].found)]
    /\ call.latest # None

\* The rows of a file as the pairs (text, _original_index) it holds.
Written(rows) == [i \in 1..Len(rows) |-> <<rows[i].text, rows[i].idx>>]

\* A second run on the output of the first, with the configuration of the first.
SecondRunSameConfig == call.op = "rerun" /\ args = call.first.args

\* C22: a successful run on the output of an earlier run, with the same
\* configuration, writes the same rows, produces no audit event and reports
\* final_rows equal to original_rows.
C22_Idempotent ==
    (Succeeded /\ SecondRunSameConfig) =>
        /\ Written(output_file[1]) = Written(call.first.output)
        /\ audit_events = <<>>
        /\ stats["final_rows"] = stats["original_rows"]

\* The vectors the index holds after the embeddings of the rows f were added.
IndexedVectorsOf(f) == AddRows(<<>>, embed([i \in 1..Len(f) |-> f[i].text]))

\* C23: in every step of Stage 2 the rows handed on by Stage 1 hold none of the
\* rows Stage 1 removed as exact duplicates, the index built in the step holds
\* the embeddings of exactly those rows, and with no such row the step touches
\* neither the embedder nor the index and cannot fail.
C23_StageOneBeforeEmbedding ==
    [][pc = "stage2" =>
         /\ \A k \in exact_duplicate_indices(df) : df[k].pos \notin PosOf(df_after_exact)
         /\ (Len(df_after_exact) > 0 /\ pc' = "validate") =>
                /\ index' # None
                /\ index'[1].vectors = IndexedVectorsOf(df_after_exact)
                /\ Len(index'[1].vectors) <= Len(df) - Cardinality(exact_duplicate_indices(df))
         /\ Len(df_after_exact) = 0 => (index' = index /\ pc' = "validate")]_vars

\* Stage 1 removed an exact duplicate and Stage 2 embedded and indexed the rest.
C23_Witness ==
    /\ pc = "validate"
    /\ stats["exact_duplicates_removed"] > 0
    /\ Len(df_after_exact) > 0
    /\ index # None
    /\ Len(index[1].vectors) = Len(df_after_exact)

\* C24: right after Stage 2, every member g of a duplicate group denotes the
\* row at position g of the embedded list: the embedding of that row is the
\* vector the index holds under the id g.
C24_GroupIdsAreRows ==
    (pc = "validate" /\ Len(df_after_exact) > 0) =>
        \A k \in 1..Len(duplicate_groups) : \A g \in duplicate_groups[k] :
            embed_one(df_after_exact[g + 1].text) = index[1].vectors[g + 1]

\* The _original_index values of the rows written to the output file.
WrittenIndices == { output_file[1][k].idx : k \in 1..Len(output_file[1]) }

\* C25: after a successful run, the row every duplicate event names as the
\* original (the number in its details) is a row of the output file.
C25_OriginalsAreKept ==
    Succeeded =>
        \A e \in 1..Len(audit_events) :
            audit_events[e].reason \in {"exact_duplicate", "semantic_duplicate"} =>
                audit_events[e].details[2] \in WrittenIndices

\* The reasons of the validation events, as the code and as the spec spell them.
ValidationReasons ==
    { "Validation: empty_or_null", "Validation: too_short",
      "validation_empty_or_null", "validation_too_short" }

\* C26: the rows the audit pre-pass reports are the rows validate_data removes:
\* on a frame of its own the reported row indices are those of the removed rows,
\* one event each, and in a run the number of validation events equals the
\* number of rows the validator dropped.
C26_PrePassMatchesValidator ==
    /\ call.op = "validation" =>
          /\ \A k \in 1..Len(call.events) : call.events[k].reason \in ValidationReasons
          /\ { call.events[k].row_index : k \in 1..Len(call.events) }
                = { call.frame[i].idx : i \in { j \in 1..Len(call.frame) :
                                                  call.frame[j].pos \notin PosOf(call.out) } }
          /\ Len(call.events) = Len(call.frame) - Len(call.out)
    /\ pc = "save" =>
          CountEvents(ValidationReasons) = stats["validation_report.dropped_rows"]

\* a frame of which the validator removes one row and keeps the other, under a
\* positive min_length
C26_Witness ==
    /\ call.op = "validation"
    /\ call.min_length > 0
    /\ Len(call.frame) = 2
    /\ Len(call.out) = 1
    /\ Len(call.events) = 1

\* The start of a second run on the same object.
SecondRunStarts == call = NoCall /\ call'.op = "rerun"

\* The chunk step of a second run that was given a chunk size.
SecondRunChunks ==
    /\ call.op = "rerun"
    /\ pc = "chunk"
    /\ args.chunk_size # None
    /\ args.chunk_size[1] > 0

\* C27: a second run on the same object starts with an empty audit trail, and
\* its chunk step leaves a chunker with the chunk_size and chunk_overlap of
\* that run.
C27_RunsAreIndependent ==
    [][/\ SecondRunStarts => audit_events' = <<>>
       /\ SecondRunChunks =>
              chunker' = Some([chunk_size |-> args.chunk_size[1],
                               chunk_overlap |-> args.chunk_overlap])]_vars

\* C27, the half about the audit trail alone.
C27_AuditTrailReset == [][SecondRunStarts => audit_events' = <<>>]_vars

\* a second run has started after a run that left audit events
C27_AuditWitness ==
    /\ call.op = "rerun"
    /\ call.first.audit_events > 0
    /\ pc = "schema"
    /\ audit_events = <<>>

\* C28: in the stats of a successful run the row counts add up stage by stage:
\* the rows after Stage 1 and the exact duplicates make the rows after
\* chunking, the rows after Stage 2 and the semantic duplicates make the rows
\* after Stage 1, and duplicates_removed is the sum of the two removed counts.
C28_CountsConserved ==
    Succeeded =>
        /\ stats["after_exact_dedup_rows"] + stats["exact_duplicates_removed"]
              = stats["after_chunking_rows"]
        /\ stats["after_deduplication_rows"] + stats["semantic_duplicates_removed"]
              = stats["after_exact_dedup_rows"]
        /\ stats["duplicates_removed"]
              = stats["exact_duplicates_removed"] + stats["semantic_duplicates_removed"]

\* a successful run in which both stages removed a row
C28_Witness ==
    /\ Succeeded
    /\ stats["exact_duplicates_removed"] > 0
    /\ stats["semantic_duplicates_removed"] > 0

\* Past sanitization no row of a frame with a text column has a null or blank
\* text: the case of a null text in Stage 1 does not arise in a run.
TextsPastSanitizationNotBlank ==
    (pc \in {"chunk", "stage1", "stage2", "validate"} /\ "text" \in columns) =>
        \A k \in 1..Len(df) : df[k].text # NullText /\ Strip(df[k].text) # <<>>

\* C30: when main has returned, no temporary file it created for stdin input
\* or stdout output is left.
C30_TempFilesDeleted ==
    (call.op = "main" /\ call.exit_code # None) => call.temp_files = {}
====
